---- MODULE Spec2Model ----
(***************************************************************************)
(* Model of runpod-workers/multitalk/handler.py: the job orchestrator      *)
(* (handler), its helpers (download_file, validate_image_file,             *)
(* validate_audio_file, check_server, poll_result, upload_file) and the    *)
(* HTTP/file-system environment they talk to.                              *)
(*                                                                         *)
(* Python values are records [kind, hi, n, s].  An integer is              *)
(* hi * 10^8 + n (two limbs, so that the 16-digit seeds fit), a float      *)
(* that holds a whole number is kind "float" with the same limbs, a        *)
(* string is kind "str" with its text in s.  A message is a sequence of    *)
(* string tokens: the pieces the f-string is built from, in order.         *)
(***************************************************************************)
EXTENDS Integers, Sequences, FiniteSets, TLC

VARIABLES
    job,              \* the job object handed to handler
    pc,               \* the handler's position
    params,           \* the locals extracted at lines 300-322
    image_name,       \* local image_name (line 327)
    audio_name,       \* local audio_name (line 339)
    input_files,      \* the staging directory input/: file name -> content
    download_response,\* download_file: what its requests.get did (line 129)
    workflow,         \* the loaded and bound workflow graph (lines 356-382)
    probes,           \* check_server: health probes issued so far (loop index i)
    probe_ok,         \* check_server: whether a probe was answered with HTTP 200
    submit_response,  \* the response of POST /prompt (line 393)
    elapsed,          \* poll_result: time.time() - start_time, in seconds
    engine,           \* the engine's state for the submitted prompt
    history,          \* poll_result: the last body GET /history answered with
    poll_out,         \* the (success, result) pair poll_result returned
    video,            \* output/<video_name> as lines 421-424 found it
    put_response,     \* upload_file: the outcome of the PUT (line 109)
    puts,             \* number of PUT requests issued
    result,           \* the dict handler returned
    trace,            \* stages started so far, each with its outcome
    netops,           \* kinds of network operation performed so far
    raised            \* text of the exception that reached handler's except clause

vars == <<job, pc, params, image_name, audio_name, input_files, download_response,
          workflow, probes,
          probe_ok, submit_response, elapsed, engine, history, poll_out,
          video, put_response, puts, result, trace, netops, raised>>

----------------------------------------------------------------------------
(* Python values *)

Val(kind, hi, n, s) == [kind |-> kind, hi |-> hi, n |-> n, s |-> s]
IntV(n) == Val("int", 0, n, "")
BigV(hi, n) == Val("int", hi, n, "")
FloatV(n) == Val("float", 0, n, "")
StrV(s) == Val("str", 0, 0, s)
NumStrV(n) == Val("numstr", 0, n, "")
BoolV(b) == Val("bool", 0, IF b THEN 1 ELSE 0, "")
NullV == Val("null", 0, 0, "")

\* the eight decimal digits of the low half of a wide integer
RECURSIVE Digits(_, _)
Digits(n, width) ==
    IF width = 0 THEN "" ELSE Digits(n \div 10, width - 1) \o ToString(n % 10)

\* str(v) as one message token
Str(v) ==
    CASE v.kind = "str" -> v.s
      [] v.kind = "null" -> "None"
      [] v.kind = "bool" -> IF v.n = 1 THEN "True" ELSE "False"
      [] v.kind = "float" -> ToString(v.n) \o ".0"
      [] OTHER -> IF v.hi = 0 THEN ToString(v.n)
                  ELSE ToString(v.hi) \o Digits(v.n, 8)

\* int(x): [ok, v, err]
PyInt(x) ==
    CASE x.kind \in {"int", "bool"} -> [ok |-> TRUE, v |-> Val("int", x.hi, x.n, ""), err |-> ""]
      [] x.kind \in {"float", "numstr"} -> [ok |-> TRUE, v |-> Val("int", x.hi, x.n, ""), err |-> ""]
      [] x.kind = "str" ->
           [ok |-> FALSE, v |-> NullV, err |-> "invalid literal for int() with base 10: " \o x.s]
      [] OTHER ->
           [ok |-> FALSE, v |-> NullV, err |-> "int() argument must be a string or a real number"]

\* float(x): [ok, v, err]
PyFloat(x) ==
    CASE x.kind \in {"int", "bool", "float", "numstr"} ->
           [ok |-> TRUE, v |-> Val("float", x.hi, x.n, ""), err |-> ""]
      [] x.kind = "str" ->
           [ok |-> FALSE, v |-> NullV, err |-> "could not convert string to float: " \o x.s]
      [] OTHER ->
           [ok |-> FALSE, v |-> NullV, err |-> "float() argument must be a string or a real number"]

\* bool(x): truthiness
PyBool(x) ==
    CASE x.kind \in {"int", "float", "bool"} -> BoolV(x.hi # 0 \/ x.n # 0)
      [] x.kind = "str" -> BoolV(x.s # "")
      [] x.kind = "numstr" -> BoolV(TRUE)
      [] OTHER -> BoolV(FALSE)

IsZero(v) == v.hi = 0 /\ v.n = 0

RECURSIVE Gcd(_, _)
Gcd(a, b) == IF b = 0 THEN a ELSE Gcd(b, a % b)

\* a / b for whole-number operands, b # 0: the quotient as a reduced fraction
Quotient(a, b) ==
    LET g == Gcd(IF a < 0 THEN -a ELSE a, IF b < 0 THEN -b ELSE b)
        s == IF b < 0 THEN -1 ELSE 1
    IN  [num |-> s * (a \div g), den |-> s * (b \div g)]

\* sep.join(seq) as message tokens
RECURSIVE Join(_, _)
Join(seq, sep) ==
    IF Len(seq) = 0 THEN <<>>
    ELSE IF Len(seq) = 1 THEN <<seq[1]>>
    ELSE <<seq[1], sep>> \o Join(Tail(seq), sep)

Contains(msg, tok) == \E i \in 1..Len(msg) : msg[i] = tok

----------------------------------------------------------------------------
(* The job *)

required_params ==
    << "image_url", "audio_url", "video_upload_url",
       "audio_crop_start_time", "audio_crop_end_time",
       "positive_prompt", "negative_prompt",
       "aspect_ratio", "scale_to_length", "scale_to_side",
       "fps", "num_frames",
       "embeds_audio_scale", "embeds_cfg_audio_scale",
       "embeds_multi_audio_type", "embeds_normalize_loudness",
       "steps", "seed", "scheduler" >>

Keys == {required_params[i] : i \in 1..Len(required_params)}

\* a well-formed request
BaseInput ==
    [k \in Keys |->
        CASE k = "scale_to_length" -> IntV(512)
          [] k = "fps" -> IntV(25)
          [] k = "num_frames" -> IntV(81)
          [] k = "steps" -> IntV(4)
          [] k = "seed" -> IntV(42)
          [] k = "embeds_audio_scale" -> IntV(1)
          [] k = "embeds_cfg_audio_scale" -> IntV(1)
          [] k = "embeds_normalize_loudness" -> BoolV(TRUE)
          [] k = "audio_crop_start_time" -> StrV("0:00")
          [] k = "audio_crop_end_time" -> StrV("0:05")
          [] OTHER -> StrV(k)]

\* largest number of required keys a generated request lacks (besides the empty one)
MaxMissing == 2

RECURSIVE SubsetsUpTo(_, _)
SubsetsUpTo(S, k) ==
    IF k = 0 THEN {{}}
    ELSE LET smaller == SubsetsUpTo(S, k - 1)
         IN  smaller \cup {M \cup {x} : M \in smaller, x \in S}

Restrict(f, S) == [k \in S |-> f[k]]

\* requests lacking some required keys
IncompleteInputs ==
    {Restrict(BaseInput, Keys \ M) : M \in SubsetsUpTo(Keys, MaxMissing) \ {{}}}
    \cup {Restrict(BaseInput, {})}

\* the fields handler converts with int() or float(), in the order of lines 310-317
NumericKeys == <<"scale_to_length", "fps", "num_frames", "steps", "seed",
                 "embeds_audio_scale", "embeds_cfg_audio_scale">>

\* values a request may carry where a number is expected
MalformedValues == {StrV("abc"), NullV}

\* complete requests: the well-formed one, and one field changed at a time
CompleteInputs ==
    {BaseInput}
    \cup {[BaseInput EXCEPT ![NumericKeys[i]] = v] :
             i \in 1..Len(NumericKeys), v \in MalformedValues}
    \cup {[BaseInput EXCEPT !["fps"] = IntV(0)]}
    \cup {[BaseInput EXCEPT !["seed"] = IntV(-1), !["fps"] = NumStrV(30)]}
    \cup {[BaseInput EXCEPT !["seed"] = IntV(-2)]}

Jobs ==
    {[input |-> i] : i \in IncompleteInputs \cup CompleteInputs}
    \cup {<<>>}

\* job.get('input', {})
JobInput(j) == IF "input" \in DOMAIN j THEN j["input"] ELSE <<>>

----------------------------------------------------------------------------
(* Files and HTTP responses *)

\* thresholds of the validators and of download_file
MinFileSize == 100
SmallResponse == 10000
AssumedAudioSize == 10000

\* What a payload starts with: a signature imghdr knows, an audio container
\* signature, or one of the markers the validators look for in the header.
ImageSigs == {"jpeg", "png"}
Mp3Sigs == {"id3", "mp3sync"}
MarkupSigs == {"doctype", "html"}

\* A payload or a file: its size in bytes, what its leading bytes are, and the
\* word of the error-page heuristic its text holds ("" for none).
\* The word stands at the head of the text, or `before` characters into it.
ContentAt(size, sig, word, before) ==
    [size |-> size, sig |-> sig, word |-> word, before |-> before]
Content(size, sig, word) == ContentAt(size, sig, word, 0)

\* imghdr.what(file_path): the image type, "" for None
ImghdrWhat(c) == IF c.sig \in ImageSigs THEN c.sig ELSE ""

NoFiles == <<>>

\* validate_image_file(file_path): [ok, msg]
validate_image_file(fs, name) ==
    IF name \notin DOMAIN fs
    THEN [ok |-> FALSE, msg |-> <<"File does not exist">>]
    ELSE LET c == fs[name] IN
         IF c.size < MinFileSize
         THEN [ok |-> FALSE,
               msg |-> <<"File too small (", ToString(c.size), " bytes), likely an error response">>]
         ELSE IF ImghdrWhat(c) = ""
         THEN IF c.sig \in MarkupSigs \cup {"xml"}
              THEN [ok |-> FALSE, msg |-> <<"File contains HTML/XML (likely an error page)">>]
              ELSE IF c.sig = "json"
              THEN [ok |-> FALSE, msg |-> <<"File contains JSON error response">>]
              ELSE [ok |-> FALSE, msg |-> <<"File is not a valid image format">>]
         ELSE [ok |-> TRUE,
               msg |-> <<"Valid ", ImghdrWhat(c), " image (", ToString(c.size), " bytes)">>]

\* an audio validator that looks at the signature before it looks at the size
validate_audio_file_signature_first(fs, name) ==
    IF name \notin DOMAIN fs
    THEN [ok |-> FALSE, msg |-> <<"File does not exist">>]
    ELSE LET c == fs[name]
             bytes == <<" audio (", ToString(c.size), " bytes)">>
         IN
         IF c.sig \in Mp3Sigs THEN [ok |-> TRUE, msg |-> <<"Valid MP3">> \o bytes]
         ELSE IF c.sig = "riffwave" THEN [ok |-> TRUE, msg |-> <<"Valid WAV">> \o bytes]
         ELSE IF c.size < MinFileSize
         THEN [ok |-> FALSE,
               msg |-> <<"File too small (", ToString(c.size), " bytes), likely an error response">>]
         ELSE [ok |-> c.size > AssumedAudioSize, msg |-> <<"Unknown audio format">>]

\* validate_audio_file(file_path): [ok, msg]
validate_audio_file(fs, name) ==
    IF name \notin DOMAIN fs
    THEN [ok |-> FALSE, msg |-> <<"File does not exist">>]
    ELSE LET c == fs[name]
             bytes == <<" audio (", ToString(c.size), " bytes)">>
         IN
         IF c.size < MinFileSize
         THEN [ok |-> FALSE,
               msg |-> <<"File too small (", ToString(c.size), " bytes), likely an error response">>]
         ELSE IF c.sig \in MarkupSigs
         THEN [ok |-> FALSE, msg |-> <<"File contains HTML (likely an error page)">>]
         ELSE IF c.sig \in Mp3Sigs THEN [ok |-> TRUE, msg |-> <<"Valid MP3">> \o bytes]
         ELSE IF c.sig = "riffwave" THEN [ok |-> TRUE, msg |-> <<"Valid WAV">> \o bytes]
         ELSE IF c.sig = "oggs" THEN [ok |-> TRUE, msg |-> <<"Valid OGG">> \o bytes]
         ELSE IF c.sig = "ftyp" THEN [ok |-> TRUE, msg |-> <<"Valid M4A/AAC">> \o bytes]
         ELSE IF c.size > AssumedAudioSize
         THEN [ok |-> TRUE, msg |-> <<"Assumed valid">> \o bytes]
         ELSE [ok |-> FALSE, msg |-> <<"Unknown audio format (header: ", c.sig, ")">>]

\* What requests.get / requests.put / requests.post did: an HTTP response, a
\* timeout, another requests.RequestException, or any other exception.
Response(status, ctype, body) ==
    [kind |-> "response", status |-> status, ctype |-> ctype, body |-> body, err |-> ""]
Failure(kind, err) ==
    [kind |-> kind, status |-> 0, ctype |-> "", body |-> Content(0, "", ""), err |-> err]
TimedOut == Failure("timeout", "Read timed out")
ConnError == Failure("reqexc", "Connection refused")
OtherError == Failure("exc", "unexpected failure")

\* line 141: the heuristic reads the first 500 characters of the text
Excerpt == 500

\* len(word)
WordLength(word) == IF word \in {"denied", "DENIED"} THEN 6 ELSE 5

\* a heuristic that fires whatever the size of the payload
LooksLikeErrorPageAnySize(r) ==
    /\ r.ctype \in {"text/html", "application/json"}
    /\ r.body.word \in {"error", "denied", "Error", "DENIED"}
    /\ r.body.before + WordLength(r.body.word) <= Excerpt

\* the error-page heuristic of lines 137-143
LooksLikeErrorPage(r) ==
    /\ r.ctype \in {"text/html", "application/json"}
    /\ r.body.size < SmallResponse
    /\ r.body.word \in {"error", "denied", "Error", "DENIED"}
    /\ r.body.before + WordLength(r.body.word) <= Excerpt

\* download_file(url, save_name), given what the GET did:
\* [ok, result, files] with files the staging directory afterwards
download_file(r, save_name, fs) ==
    CASE r.kind = "timeout" ->
           [ok |-> FALSE, result |-> <<"Download timed out after 120 seconds">>, files |-> fs]
      [] r.kind = "reqexc" ->
           [ok |-> FALSE, result |-> <<"Download request error: ", r.err>>, files |-> fs]
      [] r.kind = "exc" ->
           [ok |-> FALSE, result |-> <<"Download exception: ", r.err>>, files |-> fs]
      [] OTHER ->
           IF r.status # 200
           THEN [ok |-> FALSE,
                 result |-> <<"Download failed with HTTP ", ToString(r.status), ": ", r.body.word>>,
                 files |-> fs]
           ELSE IF LooksLikeErrorPage(r)
           THEN [ok |-> FALSE, result |-> <<"URL returned error page: ", r.body.word>>, files |-> fs]
           ELSE IF r.body.size < MinFileSize
           THEN [ok |-> FALSE,
                 result |-> <<"Downloaded content too small (", ToString(r.body.size), " bytes)">>,
                 files |-> fs]
           ELSE [ok |-> TRUE,
                 result |-> <<"input/" \o save_name>>,
                 files |-> [n \in DOMAIN fs \cup {save_name} |->
                               IF n = save_name THEN r.body ELSE fs[n]]]

\* upload_file sending the file once more when the PUT was not answered with 200
upload_file_retrying(exists, path, r) ==
    IF ~exists
    THEN [ok |-> FALSE, msg |-> <<"File not found: ", path>>, put |-> 0]
    ELSE IF r.kind = "response" /\ r.status = 200
    THEN [ok |-> TRUE, msg |-> <<"Upload successful">>, put |-> 1]
    ELSE [ok |-> FALSE, msg |-> <<"Upload failed after a retry">>, put |-> 2]

\* upload_file taking every 2xx answer of the PUT for success
upload_file_any_2xx(exists, path, r) ==
    IF ~exists
    THEN [ok |-> FALSE, msg |-> <<"File not found: ", path>>, put |-> 0]
    ELSE IF r.kind = "response" /\ r.status \in 200..299
    THEN [ok |-> TRUE, msg |-> <<"Upload successful">>, put |-> 1]
    ELSE [ok |-> FALSE, msg |-> <<"Upload failed">>, put |-> 1]

\* upload_file(file_path, pre_signed_url), given whether the file exists and
\* what the PUT did: [ok, msg, put] with put the number of PUTs issued
upload_file(exists, path, r) ==
    IF ~exists
    THEN [ok |-> FALSE, msg |-> <<"File not found: ", path>>, put |-> 0]
    ELSE CASE r.kind = "timeout" ->
                [ok |-> FALSE, msg |-> <<"Upload timed out after 300 seconds">>, put |-> 1]
           [] r.kind \in {"reqexc", "exc"} ->
                [ok |-> FALSE, msg |-> <<"Upload exception: ", r.err>>, put |-> 1]
           [] OTHER ->
                IF r.status = 200
                THEN [ok |-> TRUE, msg |-> <<"Upload successful">>, put |-> 1]
                ELSE [ok |-> FALSE,
                      msg |-> <<"Upload failed with status ", ToString(r.status), ": ", r.body.word>>,
                      put |-> 1]

----------------------------------------------------------------------------
(* Parameter extraction, lines 299-324 *)

SeedMin == BigV(10000000, 0)           \* 10**15
SeedMax == BigV(99999999, 99999999)    \* 10**16 - 1

\* values generate_random_seed() is followed through
RandomSeeds == {SeedMin, SeedMax}

\* the conversion line 310-319 applies to field k
Convert(k, x) ==
    CASE k \in {"scale_to_length", "num_frames", "steps", "seed"} -> PyInt(x)
      [] k \in {"fps", "embeds_audio_scale", "embeds_cfg_audio_scale"} -> PyFloat(x)
      [] k = "embeds_normalize_loudness" -> [ok |-> TRUE, v |-> PyBool(x), err |-> ""]
      [] OTHER -> [ok |-> TRUE, v |-> x, err |-> ""]

\* the first conversion that raises, 0 when none does
FirstBad(ji) ==
    LET bad == {i \in 1..Len(NumericKeys) : ~Convert(NumericKeys[i], ji[NumericKeys[i]]).ok}
    IN  IF bad = {} THEN 0 ELSE CHOOSE i \in bad : \A j \in bad : i <= j

\* lines 300-319: [ok, p, err]
Extract(ji) ==
    IF FirstBad(ji) # 0
    THEN [ok |-> FALSE, p |-> <<>>,
          err |-> Convert(NumericKeys[FirstBad(ji)], ji[NumericKeys[FirstBad(ji)]]).err]
    ELSE [ok |-> TRUE, p |-> [k \in Keys |-> Convert(k, ji[k]).v], err |-> ""]

\* a resolution that takes every negative seed for the request of a random one
ResolveSeedNegative(seed) == IF seed.n < 0 THEN RandomSeeds ELSE {seed}

\* line 322: the seeds the job may run with
ResolveSeed(seed) == IF seed = IntV(-1) THEN RandomSeeds ELSE {seed}

----------------------------------------------------------------------------
(* The workflow template, lines 350-382 *)

\* the (node, input, parameter) slots in the order handler writes them
Slots ==
    << <<"218", "image", "image_name">>,
       <<"219", "audio", "audio_name">>,
       <<"223", "start_time", "audio_crop_start_time">>,
       <<"223", "end_time", "audio_crop_end_time">>,
       <<"135", "positive_prompt", "positive_prompt">>,
       <<"135", "negative_prompt", "negative_prompt">>,
       <<"233", "aspect_ratio", "aspect_ratio">>,
       <<"233", "scale_to_side", "scale_to_side">>,
       <<"233", "scale_to_length", "scale_to_length">>,
       <<"224", "audio_scale", "embeds_audio_scale">>,
       <<"224", "audio_cfg_scale", "embeds_cfg_audio_scale">>,
       <<"224", "multi_audio_type", "embeds_multi_audio_type">>,
       <<"224", "normalize_loudness", "embeds_normalize_loudness">>,
       <<"198", "seed", "seed">>,
       <<"198", "steps", "steps">>,
       <<"198", "scheduler", "scheduler">>,
       <<"226", "value", "fps">>,
       <<"228", "value", "num_frames">> >>

SlotNodes == {Slots[i][1] : i \in 1..Len(Slots)}
SlotInputs(node) == {Slots[i][2] : i \in {j \in 1..Len(Slots) : Slots[j][1] = node}}

\* multitalk_api.json as shipped: the slot nodes, each with its slots and one
\* input that is no slot, and the output node 221
FullTemplate ==
    [node \in SlotNodes \cup {"221"} |->
        IF node = "221"
        THEN [class_type |-> "VHS_VideoCombine",
              inputs |-> [i \in {"images", "frame_rate"} |-> StrV("link")]]
        ELSE [class_type |-> "node" \o node,
              inputs |-> [i \in SlotInputs(node) \cup {"upstream"} |->
                             IF i = "upstream" THEN StrV("link") ELSE StrV("template")]]]

\* a template of another version: node 198 is missing
TemplateWithoutSampler == [node \in DOMAIN FullTemplate \ {"198"} |-> FullTemplate[node]]

\* a template of another version: node 198 is there, its input 'seed' is not
TemplateWithoutSeedInput ==
    [FullTemplate EXCEPT !["198"] =
        [class_type |-> FullTemplate["198"].class_type,
         inputs |-> [i \in DOMAIN FullTemplate["198"].inputs \ {"seed"} |->
                        FullTemplate["198"].inputs[i]]]]

NoWorkflow == <<>>

\* what is found at multitalk_api.json
TemplateFiles ==
    {[exists |-> FALSE, parses |-> FALSE, graph |-> NoWorkflow],
     [exists |-> TRUE, parses |-> FALSE, graph |-> NoWorkflow],
     [exists |-> TRUE, parses |-> TRUE, graph |-> FullTemplate],
     [exists |-> TRUE, parses |-> TRUE, graph |-> TemplateWithoutSampler],
     [exists |-> TRUE, parses |-> TRUE, graph |-> TemplateWithoutSeedInput]}

\* an assignment that makes the node's inputs anew, with the one input
SetInputReplacing(g, node, name, v) ==
    [g EXCEPT ![node] =
        [class_type |-> g[node].class_type,
         inputs |-> [i \in {name} |-> v]]]

\* workflow[node]["inputs"][name] = v
SetInput(g, node, name, v) ==
    [g EXCEPT ![node] =
        [class_type |-> g[node].class_type,
         inputs |-> [i \in DOMAIN g[node].inputs \cup {name} |->
                        IF i = name THEN v ELSE g[node].inputs[i]]]]

\* lines 359-382 from slot i on: [ok, graph, err]; a missing node raises KeyError
RECURSIVE BindFrom(_, _, _)
BindFrom(g, values, i) ==
    IF i > Len(Slots) THEN [ok |-> TRUE, graph |-> g, err |-> ""]
    ELSE IF Slots[i][1] \notin DOMAIN g
    THEN [ok |-> FALSE, graph |-> g, err |-> "'" \o Slots[i][1] \o "'"]
    ELSE CHOOSE b \in {BindFrom(h, values, i + 1) :
                         h \in {SetInput(g, Slots[i][1], Slots[i][2], values[Slots[i][3]])}} : TRUE

\* the values written: the extracted parameters and the two staged file names
BindValues(p, img, aud) ==
    [k \in Keys \cup {"image_name", "audio_name"} |->
        CASE k = "image_name" -> StrV(img)
          [] k = "audio_name" -> StrV(aud)
          [] OTHER -> p[k]]

Bind(template, p, img, aud) == BindFrom(template, BindValues(p, img, aud), 1)

----------------------------------------------------------------------------
(* handler, lines 275-447: the result and the stages up to the binding *)

NoResult == [status |-> 0, message |-> <<>>]
Res(status, message) == [status |-> status, message |-> message]

stagingVars == <<image_name, audio_name, input_files, download_response>>
serverVars == <<probes, probe_ok>>
pollVars == <<elapsed, engine, history, poll_out>>
uploadVars == <<video, put_response, puts>>

\* return r
Return(r) ==
    /\ pc' = "done"
    /\ result' = r

\* a handler without the except clause: the exception leaves it, no result
RaiseEscapes(e) ==
    /\ pc' = "escaped"
    /\ result' = result
    /\ raised' = e

\* an exception reaches the except clause of lines 443-447
Raise(e) ==
    /\ Return(Res(500, <<"Handler exception: ", e>>))
    /\ raised' = e

\* a stage starts, with its outcome
Stage(name, ok) == trace' = Append(trace, [stage |-> name, ok |-> ok])

\* a stage whose failure is noted but not returned
CheckAndContinue(ok, message, next) ==
    /\ pc' = next
    /\ result' = result
    /\ raised' = raised

\* "if not success: return {status 500, message}", else go on at next
Check(ok, message, next) ==
    /\ IF ok
       THEN pc' = next /\ result' = result
       ELSE Return(Res(500, message))
    /\ raised' = raised

\* a check that stops at the first missing key
FirstMissingParam(ji) ==
    LET all == SelectSeq(required_params, LAMBDA p : p \notin DOMAIN ji)
    IN  IF all = <<>> THEN <<>> ELSE <<all[1]>>

\* line 295
MissingParams(ji) == SelectSeq(required_params, LAMBDA p : p \notin DOMAIN ji)

\* lines 278-297: the required parameters
ValidateParams ==
    /\ pc = "start"
    /\ LET missing_params == MissingParams(JobInput(job)) IN
         IF missing_params # <<>>
         THEN /\ Return(Res(400, <<"Missing required parameters: ">>
                                   \o Join(missing_params, ", ")))
              /\ Stage("field_check", FALSE)
         ELSE /\ pc' = "extract"
              /\ result' = result
              /\ Stage("field_check", TRUE)
    /\ UNCHANGED <<job, params, stagingVars, workflow, serverVars, submit_response,
                   pollVars, uploadVars, netops, raised>>

\* lines 299-324: conversions, the seed, and the log line that divides by fps
ExtractParams ==
    /\ pc = "extract"
    /\ LET e == Extract(JobInput(job)) IN
         IF ~e.ok
         THEN Raise(e.err) /\ params' = params
         ELSE \E seed \in ResolveSeed(e.p["seed"]) :
                /\ params' = [e.p EXCEPT !["seed"] = seed]
                /\ IF IsZero(e.p["fps"])
                   THEN Raise("float division by zero")
                   ELSE pc' = "image_download" /\ UNCHANGED <<result, raised>>
    /\ UNCHANGED <<job, stagingVars, workflow, serverVars, submit_response,
                   pollVars, uploadVars, trace, netops>>

\* what the image URL and the audio URL are followed through answering
ImageResponses ==
    {Response(200, "image/jpeg", Content(51200, "jpeg", "")),
     Response(200, "text/html", Content(20000, "doctype", "error")),
     Response(200, "application/json", Content(300, "json", "")),
     Response(200, "application/octet-stream", Content(4096, "other", "")),
     Response(200, "text/html", Content(512, "html", "denied")),
     Response(200, "text/html", ContentAt(9000, "doctype", "denied", 600)),
     Response(200, "image/jpeg", Content(60, "jpeg", "")),
     Response(404, "text/plain", Content(9, "other", "")),
     TimedOut, ConnError, OtherError}

AudioResponses ==
    {Response(200, "audio/mpeg", Content(30720, "id3", "")),
     Response(200, "application/octet-stream", Content(20000, "other", "")),
     Response(200, "application/octet-stream", Content(5000, "other", "")),
     Response(200, "text/html", Content(20000, "html", "")),
     Response(200, "application/json", Content(200, "json", "Error")),
     Response(200, "audio/wav", Content(44, "riffwave", "")),
     Response(403, "application/xml", Content(250, "xml", "denied")),
     TimedOut, ConnError, OtherError}

\* the random suffix of a staged file's name is followed through one value
NameTokens == {SeedMin}

\* lines 326-330
DownloadImage ==
    /\ pc = "image_download"
    /\ \E token \in NameTokens, r \in ImageResponses :
         LET name == "input_image_" \o Str(token) \o ".png"
             d == download_file(r, name, input_files)
         IN  /\ image_name' = name
             /\ input_files' = d.files
             /\ download_response' = r
             /\ Stage("image_download", d.ok)
             /\ Check(d.ok, <<"Image download failed: ">> \o d.result, "image_validation")
    /\ netops' = netops \cup {"GET image"}
    /\ UNCHANGED <<job, params, audio_name, workflow, serverVars, submit_response,
                   pollVars, uploadVars>>

\* lines 332-336
ValidateImage ==
    /\ pc = "image_validation"
    /\ LET v == validate_image_file(input_files, image_name) IN
         /\ Stage("image_validation", v.ok)
         /\ Check(v.ok, <<"Image validation failed: ">> \o v.msg, "audio_download")
    /\ UNCHANGED <<job, params, stagingVars, workflow, serverVars, submit_response,
                   pollVars, uploadVars, netops>>

\* lines 338-342
DownloadAudio ==
    /\ pc = "audio_download"
    /\ \E token \in NameTokens, r \in AudioResponses :
         LET name == "input_audio_" \o Str(token) \o ".mp3"
             d == download_file(r, name, input_files)
         IN  /\ audio_name' = name
             /\ input_files' = d.files
             /\ download_response' = r
             /\ Stage("audio_download", d.ok)
             /\ Check(d.ok, <<"Audio download failed: ">> \o d.result, "audio_validation")
    /\ netops' = netops \cup {"GET audio"}
    /\ UNCHANGED <<job, params, image_name, workflow, serverVars, submit_response,
                   pollVars, uploadVars>>

\* lines 344-348
ValidateAudio ==
    /\ pc = "audio_validation"
    /\ LET v == validate_audio_file(input_files, audio_name) IN
         /\ Stage("audio_validation", v.ok)
         /\ Check(v.ok, <<"Audio validation failed: ">> \o v.msg, "binding")
    /\ UNCHANGED <<job, params, stagingVars, workflow, serverVars, submit_response,
                   pollVars, uploadVars, netops>>

\* lines 350-356: load the template
LoadWorkflow ==
    /\ pc = "binding"
    /\ workflow = NoWorkflow
    /\ \E t \in TemplateFiles :
         IF ~t.exists
         THEN /\ Stage("binding", FALSE)
              /\ Check(FALSE, <<"Workflow file not found: ", "multitalk_api.json">>, "done")
              /\ workflow' = workflow
         ELSE IF ~t.parses
         THEN /\ Stage("binding", FALSE)
              /\ Raise("Expecting value: line 1 column 1 (char 0)")
              /\ workflow' = workflow
         ELSE /\ Stage("binding", TRUE)
              /\ workflow' = t.graph
              /\ UNCHANGED <<pc, result, raised>>
    /\ UNCHANGED <<job, params, stagingVars, serverVars, submit_response,
                   pollVars, uploadVars, netops>>

\* lines 358-384: write the slots into the loaded graph
BindWorkflow ==
    /\ pc = "binding"
    /\ workflow # NoWorkflow
    /\ LET b == Bind(workflow, params, image_name, audio_name) IN
         /\ workflow' = b.graph
         /\ trace' = [trace EXCEPT ![Len(trace)].ok = b.ok]
         /\ IF b.ok
            THEN pc' = "check_server" /\ UNCHANGED <<result, raised>>
            ELSE Raise(b.err)
    /\ UNCHANGED <<job, params, stagingVars, serverVars, submit_response,
                   pollVars, uploadVars, netops>>

----------------------------------------------------------------------------
(* check_server, lines 175-188, and its call at lines 386-389 *)

Retries == 50

\* what a health probe does: HTTP 200, another status, a
\* requests.RequestException, or an exception of another class
ProbeOutcomes == {"200", "non200", "reqexc", "exc"}

\* a loop that grants one probe more than retries
MoreProbesOffByOne(i) == i <= Retries

\* for i in range(retries): another iteration follows
MoreProbes(i) == i < Retries

\* the reachability stage is entered by the first step of check_server
EnterReachability ==
    IF trace # <<>> /\ trace[Len(trace)].stage = "reachability"
    THEN trace
    ELSE Append(trace, [stage |-> "reachability", ok |-> FALSE])

\* lines 178-185: one probe
Probe ==
    /\ pc = "check_server"
    /\ MoreProbes(probes)
    /\ netops' = netops \cup {"GET health"}
    /\ \E o \in ProbeOutcomes :
         CASE o = "200" ->
                /\ probe_ok' = TRUE
                /\ probes' = 0
                /\ trace' = [EnterReachability EXCEPT ![Len(EnterReachability)].ok = TRUE]
                /\ pc' = "submit"
                /\ UNCHANGED <<result, raised>>
           [] o \in {"non200", "reqexc"} ->
                /\ probes' = probes + 1
                /\ trace' = EnterReachability
                /\ UNCHANGED <<probe_ok, pc, result, raised>>
           [] OTHER ->
                /\ probes' = probes + 1
                /\ trace' = EnterReachability
                /\ Raise("unexpected failure")
                /\ UNCHANGED probe_ok
    /\ UNCHANGED <<job, params, stagingVars, workflow, submit_response,
                   pollVars, uploadVars>>

\* lines 187-188 and 388-389: every probe failed
ProbesExhausted ==
    /\ pc = "check_server"
    /\ ~MoreProbes(probes)
    /\ trace' = EnterReachability
    /\ Check(FALSE, <<"ComfyUI server not reachable">>, "done")
    /\ UNCHANGED <<job, params, stagingVars, workflow, serverVars, submit_response,
                   pollVars, uploadVars, netops>>

----------------------------------------------------------------------------
(* Submission, lines 391-409 *)

\* the answer to POST /prompt: its status and its JSON body, a mapping
Posted(status, parses, body) ==
    [kind |-> "response", status |-> status, parses |-> parses, body |-> body, err |-> ""]
NotPosted(kind, err) ==
    [kind |-> kind, status |-> 0, parses |-> FALSE, body |-> <<>>, err |-> err]
NoSubmit == NotPosted("none", "")

ErrorDetail == "invalid_prompt: Cannot execute because node 198 does not exist"
NodeErrorDetail == "198: value_not_in_list scheduler"

BodyOf(keys) ==
    [k \in keys |->
        CASE k = "prompt_id" -> "prompt-1"
          [] k = "error" -> ErrorDetail
          [] OTHER -> NodeErrorDetail]

SubmitResponses ==
    {Posted(200, TRUE, BodyOf({"prompt_id"})),
     Posted(200, TRUE, BodyOf({"error"})),
     Posted(200, TRUE, BodyOf({"node_errors"})),
     Posted(200, TRUE, BodyOf({"error", "node_errors"})),
     Posted(200, TRUE, BodyOf({})),
     Posted(200, FALSE, BodyOf({})),
     Posted(400, TRUE, BodyOf({"error", "node_errors"})),
     Posted(500, FALSE, BodyOf({})),
     NotPosted("timeout", "Read timed out"),
     NotPosted("reqexc", "Connection refused")}

\* lines 400-406: [ok, message, err]: accepted, refused with a message, or an
\* exception (err) on the way
SubmitOutcome(r) ==
    IF r.kind # "response" THEN [ok |-> FALSE, message |-> <<>>, err |-> r.err]
    ELSE IF r.status # 200
    THEN [ok |-> FALSE,
          message |-> <<"Failed to submit workflow: HTTP ", ToString(r.status)>>,
          err |-> ""]
    ELSE IF ~r.parses
    THEN [ok |-> FALSE, message |-> <<>>, err |-> "Expecting value: line 1 column 1 (char 0)"]
    ELSE IF "prompt_id" \notin DOMAIN r.body
    THEN [ok |-> FALSE,
          message |-> <<"Workflow rejected: ",
                        IF "error" \in DOMAIN r.body THEN r.body["error"]
                        ELSE IF "node_errors" \in DOMAIN r.body THEN r.body["node_errors"]
                        ELSE "Unknown error">>,
          err |-> ""]
    ELSE [ok |-> TRUE, message |-> <<>>, err |-> ""]

\* lines 391-409
Submit ==
    /\ pc = "submit"
    /\ netops' = netops \cup {"POST prompt"}
    /\ \E r \in SubmitResponses :
         LET o == SubmitOutcome(r) IN
         /\ submit_response' = r
         /\ Stage("submission", o.ok)
         /\ engine' = IF o.ok THEN "running" ELSE engine
         /\ IF o.err # "" THEN Raise(o.err) ELSE Check(o.ok, o.message, "poll")
    /\ UNCHANGED <<job, params, stagingVars, workflow, serverVars,
                   elapsed, history, poll_out, uploadVars>>

----------------------------------------------------------------------------
(* poll_result, lines 191-272, and its call at lines 411-417 *)

Timeout == 600        \* the total budget, seconds
PollInterval == 2     \* time.sleep(2)
ErrorBackoff == 5     \* time.sleep(5)
NodeId == 221         \* node_id

\* how long a GET of the loop is followed through taking: no time, or its timeout
HttpDurations == {0, 10}

\* while time.time() - start_time < timeout
BudgetLeft(t) == t < Timeout

\* One entry of the history: its status block (has_status, status_str,
\* messages, each a [kind, info] pair) and its outputs, an ordered mapping
\* from node id to the node's 'gifs' list.
Entry(has_status, status_str, messages, outputs) ==
    [has_status |-> has_status, status_str |-> status_str,
     messages |-> messages, outputs |-> outputs]
Message(kind, info) == [kind |-> kind, info |-> info]
Output(node, gifs) == [node |-> node, gifs |-> gifs]

CudaOom == Message("execution_error",
                   [k \in {"node_type", "exception_message"} |->
                       IF k = "node_type" THEN "KSampler" ELSE "CUDA OOM"])
Anonymous == Message("execution_error", <<>>)
Started == Message("execution_start", <<>>)

HistoryEntries ==
    {Entry(TRUE, "success", <<Started>>, <<Output("221", <<"result.mp4">>)>>),
     Entry(FALSE, "", <<>>, <<Output("220", <<"preview.png">>), Output("221", <<"result.mp4", "b.mp4">>)>>),
     Entry(TRUE, "error", <<Started, CudaOom>>, <<>>),
     Entry(TRUE, "error", <<CudaOom, Anonymous>>, <<>>),
     Entry(TRUE, "error", <<Started>>, <<>>),
     Entry(TRUE, "error", <<CudaOom>>, <<Output("221", <<"result.mp4">>)>>),
     Entry(TRUE, "success", <<Started>>, <<>>),
     Entry(TRUE, "success", <<Started>>, <<Output("220", <<"preview.png">>)>>),
     Entry(TRUE, "success", <<Started>>, <<Output("221", <<>>)>>)}

NoEntry == Entry(FALSE, "", <<>>, <<>>)
\* the decoded body: without the prompt id, or with its entry; with it, whether
\* an earlier body of this loop lacked the id, and whether an earlier history
\* query of this loop failed (another status, a requests.RequestException)
NoHistory ==
    [kind |-> "none", entry |-> NoEntry, after_absent |-> FALSE, after_failure |-> FALSE]
Absent(failed) ==
    [kind |-> "absent", entry |-> NoEntry, after_absent |-> FALSE, after_failure |-> failed]
Present(e, waited, failed) ==
    [kind |-> "entry", entry |-> e, after_absent |-> waited, after_failure |-> failed]
HistoryFailed(h) == [h EXCEPT !.after_failure = TRUE]

\* lines 234-240: the '<node_type>: <exception_message>' of every execution_error
RECURSIVE ErrorDetails(_)
ErrorDetails(messages) ==
    IF messages = <<>> THEN <<>>
    ELSE LET m == Head(messages)
             node_type == IF "node_type" \in DOMAIN m.info
                          THEN m.info["node_type"] ELSE "Unknown"
             exception_message == IF "exception_message" \in DOMAIN m.info
                                  THEN m.info["exception_message"] ELSE "Unknown error"
         IN  (IF m.kind = "execution_error"
              THEN <<node_type \o ": " \o exception_message>> ELSE <<>>)
             \o ErrorDetails(Tail(messages))

\* outputs.get(str(node_id), {}) and its 'gifs' list, <<>> when there is none
Gifs(outputs, node) ==
    LET at == {i \in 1..Len(outputs) : outputs[i].node = node}
    IN  IF at = {} THEN <<>> ELSE outputs[CHOOSE i \in at : TRUE].gifs

\* an inspection with one message for every entry without the node's files
InspectEntryNoDiagnosis(e, node_id) ==
    LET gifs == Gifs(e.outputs, ToString(node_id)) IN
    IF e.has_status /\ e.status_str = "error"
    THEN IF ErrorDetails(e.messages) # <<>>
         THEN [ok |-> FALSE,
               result |-> <<"Workflow execution error: ">> \o Join(ErrorDetails(e.messages), "; ")]
         ELSE [ok |-> FALSE, result |-> <<"Workflow execution failed with unknown error">>]
    ELSE IF gifs # <<>>
    THEN [ok |-> TRUE, result |-> <<gifs[1]>>]
    ELSE [ok |-> FALSE, result |-> <<"Workflow completed but produced no outputs">>]

\* an inspection that looks for the node's files before it looks at the status
InspectEntryOutputsFirst(e, node_id) ==
    LET gifs == Gifs(e.outputs, ToString(node_id)) IN
    IF gifs # <<>>
    THEN [ok |-> TRUE, result |-> <<gifs[1]>>]
    ELSE IF e.has_status /\ e.status_str = "error"
    THEN IF ErrorDetails(e.messages) # <<>>
         THEN [ok |-> FALSE,
               result |-> <<"Workflow execution error: ">> \o Join(ErrorDetails(e.messages), "; ")]
         ELSE [ok |-> FALSE, result |-> <<"Workflow execution failed with unknown error">>]
    ELSE [ok |-> FALSE, result |-> <<"Workflow completed but produced no outputs">>]

\* an inspection that takes the newest file of the node, not the first
InspectEntryLastGif(e, node_id) ==
    LET gifs == Gifs(e.outputs, ToString(node_id)) IN
    IF e.has_status /\ e.status_str = "error"
    THEN [ok |-> FALSE, result |-> <<"Workflow execution failed with unknown error">>]
    ELSE IF gifs # <<>>
    THEN [ok |-> TRUE, result |-> <<gifs[Len(gifs)]>>]
    ELSE [ok |-> FALSE, result |-> <<"Workflow completed but produced no outputs">>]

\* lines 225-262: what poll_result returns for the entry of prompt_id
InspectEntry(e, node_id) ==
    IF e.has_status /\ e.status_str = "error"
    THEN IF ErrorDetails(e.messages) # <<>>
         THEN [ok |-> FALSE,
               result |-> <<"Workflow execution error: ">> \o Join(ErrorDetails(e.messages), "; ")]
         ELSE [ok |-> FALSE, result |-> <<"Workflow execution failed with unknown error">>]
    ELSE IF Gifs(e.outputs, ToString(node_id)) # <<>>
    THEN [ok |-> TRUE, result |-> <<Gifs(e.outputs, ToString(node_id))[1]>>]
    ELSE IF e.outputs = <<>>
    THEN [ok |-> FALSE, result |-> <<"Workflow completed but produced no outputs">>]
    ELSE [ok |-> FALSE,
          result |-> <<"Node ", ToString(node_id),
                       " has no output. Available outputs from nodes: ">>
                     \o [i \in 1..Len(e.outputs) |-> e.outputs[i].node]]

\* a timed-out message whose number of seconds is written out, not the budget
TimedOutStaleBudget ==
    [ok |-> FALSE, result |-> <<"Workflow timed out after ", "300", " seconds">>]

\* line 272
TimedOutResult ==
    [ok |-> FALSE, result |-> <<"Workflow timed out after ", ToString(Timeout), " seconds">>]

\* line 270
PollException(err) == [ok |-> FALSE, result |-> <<"Poll exception: ", err>>]

NoPoll == [ok |-> FALSE, result |-> <<>>]

\* the engine works on the prompt on its own
Progress(e) ==
    IF e = "running" THEN {"running", "finished"} ELSE {e}

\* the polling stage is entered by the first step of poll_result
EnterPolling ==
    IF trace # <<>> /\ trace[Len(trace)].stage = "polling"
    THEN trace
    ELSE Append(trace, [stage |-> "polling", ok |-> FALSE])

\* poll_result returns out, and lines 412-417 look at it
PollReturn(out) ==
    /\ poll_out' = out
    /\ elapsed' = 0
    /\ trace' = [EnterPolling EXCEPT ![Len(EnterPolling)].ok = out.ok]
    /\ Check(out.ok, <<"Workflow failed: ">> \o out.result, "output_check")

\* the loop goes on after time.sleep(pause)
PollAgain(spent, pause) ==
    /\ elapsed' = elapsed + spent + pause
    /\ pc' = "poll"
    /\ trace' = EnterPolling
    /\ UNCHANGED <<poll_out, result, raised>>

\* a history query that fails gives up on the whole job
HistoryAbort(spent, pause) ==
    /\ PollReturn([ok |-> FALSE, result |-> <<"History request failed">>])
    /\ history' = HistoryFailed(history)

\* lines 218-220 and 266-268: after a history query that failed, the loop
\* sleeps and goes on
HistoryRetry(spent, pause) ==
    /\ PollAgain(spent, pause)
    /\ history' = HistoryFailed(history)

\* what GET /queue and GET /history do: a well-formed 200, another status, a
\* requests.RequestException (transport error, timeout, or an undecodable body
\* under a requests that raises its own JSONDecodeError), or any other
\* exception (a body that is no mapping; an undecodable body otherwise)
GetOutcomes == {"ok", "non200", "reqexc", "exc"}

\* lines 202-214: the loop condition and the queue query
PollQueue ==
    /\ pc = "poll"
    /\ BudgetLeft(elapsed)
    /\ netops' = netops \cup {"GET queue"}
    /\ \E d \in HttpDurations, o \in GetOutcomes :
         CASE o \in {"ok", "non200"} ->
                /\ elapsed' = elapsed + d
                /\ pc' = "poll_history"
                /\ trace' = EnterPolling
                /\ UNCHANGED <<poll_out, result, raised>>
           [] o = "reqexc" -> PollAgain(d, ErrorBackoff)
           [] OTHER -> PollReturn(PollException("'list' object has no attribute 'get'"))
    /\ UNCHANGED <<job, params, stagingVars, workflow, serverVars, submit_response,
                   engine, history, uploadVars>>

\* lines 216-264: the history query and what it shows
PollHistory ==
    /\ pc = "poll_history"
    /\ netops' = netops \cup {"GET history"}
    /\ \E d \in HttpDurations, o \in GetOutcomes, e \in Progress(engine) :
         /\ engine' = e
         /\ CASE o = "non200" -> HistoryRetry(d, PollInterval)
              [] o = "reqexc" -> HistoryRetry(d, ErrorBackoff)
              [] o = "exc" ->
                   /\ PollReturn(PollException("argument of type 'NoneType' is not iterable"))
                   /\ history' = history
              [] OTHER ->
                   IF e # "finished"
                   THEN PollAgain(d, PollInterval) /\ history' = Absent(history.after_failure)
                   ELSE \E entry \in HistoryEntries :
                          /\ history' = Present(entry, history.kind = "absent",
                                                 history.after_failure)
                          /\ PollReturn(InspectEntry(entry, NodeId))
    /\ UNCHANGED <<job, params, stagingVars, workflow, serverVars, submit_response,
                   uploadVars>>

\* line 272: the budget is spent
PollTimeout ==
    /\ pc = "poll"
    /\ ~BudgetLeft(elapsed)
    /\ PollReturn(TimedOutResult)
    /\ UNCHANGED <<job, params, stagingVars, workflow, serverVars, submit_response,
                   engine, history, uploadVars, netops>>

----------------------------------------------------------------------------
(* The output file and the upload, lines 417-441 *)

\* output/<video_name> when line 421 looks: absent, or there with a size
VideoFiles == {[exists |-> FALSE, size |-> 0],
               [exists |-> TRUE, size |-> 0],
               [exists |-> TRUE, size |-> 1048576]}
NoVideo == [exists |-> FALSE, size |-> 0]

PutResponses ==
    {Response(200, "text/plain", Content(0, "", "")),
     Response(201, "text/plain", Content(0, "", "")),
     Response(204, "text/plain", Content(0, "", "")),
     Response(403, "application/xml", Content(250, "xml", "denied")),
     TimedOut, ConnError}
NoPut == Failure("none", "")

\* the quotient taken the other way round
DurationInverted(num_frames, fps) == Quotient(fps.n, num_frames.n)

\* line 439: num_frames / fps
Duration(num_frames, fps) == Quotient(num_frames.n, fps.n)

\* lines 433-441
Success(p, v) ==
    [status |-> 200,
     message |-> <<"Video created successfully">>,
     payload |-> [video_size |-> v.size,
                  num_frames |-> p["num_frames"],
                  duration |-> Duration(p["num_frames"], p["fps"])]]

VideoPath == "output/" \o poll_out.result[1]

\* lines 417-425
CheckOutput ==
    /\ pc = "output_check"
    /\ \E v \in VideoFiles :
         /\ video' = v
         /\ Stage("output_check", v.exists)
         /\ Check(v.exists, <<"Output video not found at ", VideoPath>>, "upload")
    /\ UNCHANGED <<job, params, stagingVars, workflow, serverVars, submit_response,
                   pollVars, put_response, puts, netops>>

\* lines 427-441
Upload ==
    /\ pc = "upload"
    /\ \E still \in BOOLEAN, r \in PutResponses :
         LET u == upload_file(still, VideoPath, r) IN
         /\ puts' = puts + u.put
         /\ put_response' = IF u.put = 1 THEN r ELSE put_response
         /\ netops' = IF u.put = 1 THEN netops \cup {"PUT video"} ELSE netops
         /\ Stage("upload", u.ok)
         /\ IF u.ok
            THEN Return(Success(params, video)) /\ raised' = raised
            ELSE Check(FALSE, <<"Video upload failed: ">> \o u.msg, "done")
    /\ UNCHANGED <<job, params, stagingVars, workflow, serverVars, submit_response,
                   pollVars, video>>

----------------------------------------------------------------------------
(* The worker runs handler on one job *)

Init ==
    /\ job \in Jobs
    /\ pc = "start"
    /\ params = <<>>
    /\ image_name = ""
    /\ audio_name = ""
    /\ input_files = NoFiles
    /\ download_response = Failure("none", "")
    /\ workflow = NoWorkflow
    /\ probes = 0
    /\ probe_ok = FALSE
    /\ submit_response = NoSubmit
    /\ elapsed = 0
    /\ engine = "idle"
    /\ history = NoHistory
    /\ poll_out = NoPoll
    /\ video = NoVideo
    /\ put_response = NoPut
    /\ puts = 0
    /\ result = NoResult
    /\ trace = <<>>
    /\ netops = {}
    /\ raised = ""

Next ==
    \/ ValidateParams
    \/ ExtractParams
    \/ DownloadImage
    \/ ValidateImage
    \/ DownloadAudio
    \/ ValidateAudio
    \/ LoadWorkflow
    \/ BindWorkflow
    \/ Probe
    \/ ProbesExhausted
    \/ Submit
    \/ PollQueue
    \/ PollHistory
    \/ PollTimeout
    \/ CheckOutput
    \/ Upload

Spec == Init /\ [][Next]_vars

\* The validators on files of any size and content: handler at one of its two
\* validation stages, with the file to validate put into the staging directory
\* whatever its size (the download only stages files of 100 bytes and more).
TestSizes == {0, 1, 60, 99, 100, 101, 9999, 10000, 10001, 51200}
TestSigs == {"jpeg", "png", "id3", "mp3sync", "riffwave", "oggs", "ftyp",
             "doctype", "html", "xml", "json", "other"}
TestFiles == {Content(size, sig, "") : size \in TestSizes, sig \in TestSigs}

ValidatorInit ==
    /\ job = [input |-> BaseInput]
    /\ params = Extract(BaseInput).p
    /\ image_name = "input_image_" \o Str(SeedMin) \o ".png"
    /\ download_response = Failure("none", "")
    /\ workflow = NoWorkflow
    /\ probes = 0
    /\ probe_ok = FALSE
    /\ submit_response = NoSubmit
    /\ elapsed = 0
    /\ engine = "idle"
    /\ history = NoHistory
    /\ poll_out = NoPoll
    /\ video = NoVideo
    /\ put_response = NoPut
    /\ puts = 0
    /\ result = NoResult
    /\ raised = ""
    /\ \E file \in TestFiles :
         \/ /\ pc = "image_validation"
            /\ audio_name = ""
            /\ input_files = [n \in {image_name} |-> file]
            /\ trace = <<[stage |-> "field_check", ok |-> TRUE],
                         [stage |-> "image_download", ok |-> TRUE]>>
            /\ netops = {"GET image"}
         \/ /\ pc = "audio_validation"
            /\ audio_name = "input_audio_" \o Str(SeedMin) \o ".mp3"
            /\ input_files = [n \in {image_name, audio_name} |->
                                 IF n = audio_name THEN file
                                 ELSE Content(51200, "jpeg", "")]
            /\ trace = <<[stage |-> "field_check", ok |-> TRUE],
                         [stage |-> "image_download", ok |-> TRUE],
                         [stage |-> "image_validation", ok |-> TRUE],
                         [stage |-> "audio_download", ok |-> TRUE]>>
            /\ netops = {"GET image", "GET audio"}

ValidatorNext ==
    \/ ValidateImage
    \/ ValidateAudio

ValidatorSpec == ValidatorInit /\ [][ValidatorNext]_vars

\* handler is one sequential thread: it takes its next step as long as it has
\* one, every HTTP call returning or timing out
FairSpec == Spec /\ WF_vars(Next)

----------------------------------------------------------------------------
(* Properties *)

\* the stages in the order handler goes through them, and the kinds of
\* network operation each may perform
StageOrder ==
    <<"field_check", "image_download", "image_validation", "audio_download",
      "audio_validation", "binding", "reachability", "submission", "polling",
      "output_check", "upload">>

StageOps(stage) ==
    CASE stage = "image_download" -> {"GET image"}
      [] stage = "audio_download" -> {"GET audio"}
      [] stage = "reachability" -> {"GET health"}
      [] stage = "submission" -> {"POST prompt"}
      [] stage = "polling" -> {"GET queue", "GET history"}
      [] stage = "upload" -> {"PUT video"}
      [] OTHER -> {}

\* C1: a job whose input lacks at least one required key (a job without input
\* included) is answered with status 400 and a message that names every
\* missing key and no other, and no network operation is performed for it.
C1_MissingKeysRejected ==
    LET missing == Keys \ DOMAIN JobInput(job) IN
    missing # {} =>
        /\ pc \in {"start", "done"}
        /\ netops = {}
        /\ pc = "done" =>
             /\ result.status = 400
             /\ \A k \in missing : Contains(result.message, k)
             /\ \A k \in Keys \ missing : ~Contains(result.message, k)

C1_TwoKeysMissing ==
    /\ pc = "done"
    /\ result.status = 400
    /\ Cardinality(Keys \ DOMAIN JobInput(job)) = 2

\* C2: handler returns exactly one structured result, with status 200, 400 or
\* 500 and a message, and it always returns; an exception raised in any stage
\* never leaves handler but becomes the status-500 result whose message is
\* "Handler exception: " and the exception's text.
C2_Structured ==
    /\ pc \in {"start", "extract", "image_download", "image_validation",
               "audio_download", "audio_validation", "binding", "check_server",
               "submit", "poll", "poll_history", "output_check", "upload", "done"}
    /\ (pc = "done") <=> (result # NoResult)
    /\ pc = "done" => result.status \in {200, 400, 500} /\ result.message # <<>>
    /\ raised # "" => pc = "done" /\ result = Res(500, <<"Handler exception: ", raised>>)

C2_OneStructuredResult ==
    /\ []C2_Structured
    /\ [][result # NoResult => result' = result]_vars
    /\ <>(pc = "done")

C2_ExceptionAnswered ==
    /\ pc = "done"
    /\ raised # ""
    /\ Len(trace) >= 6
    /\ result.status = 500

\* C3: the stages run in the fixed order, a stage starts only when every
\* earlier stage succeeded, a failed stage is followed by the failure result
\* at once, and only the stages that started have performed network operations.
C3_FailFast ==
    LET n == Len(trace) IN
    /\ n <= Len(StageOrder)
    /\ \A i \in 1..n : trace[i].stage = StageOrder[i]
    /\ \A i \in 1..(n - 1) : trace[i].ok
    /\ netops \subseteq UNION {StageOps(trace[i].stage) : i \in 1..n}
    /\ (pc = "done" /\ result.status # 200) => (~trace[n].ok \/ raised # "")
    /\ (n > 0 /\ ~trace[n].ok /\ pc \notin {"check_server", "poll", "poll_history"})
          => (pc = "done" /\ result.status \in {400, 500})

C3_AudioDownloadFailed ==
    /\ pc = "done"
    /\ Len(trace) = 4
    /\ ~trace[4].ok
    /\ netops = {"GET image", "GET audio"}
    /\ result.status = 500

\* C4: status 200 is returned only when both inputs were downloaded and
\* validated, the workflow was bound and accepted by the engine, the polling
\* returned the artifact name of the expected node, the artifact file was on
\* disk, and the one upload PUT was answered with exactly 200; every other
\* result has status 400 or 500.
C4_SuccessOnlyAfterEveryStage ==
    /\ pc = "done" => result.status \in {200, 400, 500}
    /\ result.status = 200 =>
         /\ pc = "done"
         /\ Len(trace) = Len(StageOrder)
         /\ \A i \in 1..Len(trace) : trace[i].ok
         /\ {image_name, audio_name} \subseteq DOMAIN input_files
         /\ input_files[image_name].sig \in ImageSigs
         /\ input_files[image_name].size >= MinFileSize
         /\ input_files[audio_name].size >= MinFileSize
         /\ input_files[audio_name].sig \notin MarkupSigs
         /\ SlotNodes \subseteq DOMAIN workflow
         /\ probe_ok
         /\ submit_response.kind = "response"
         /\ submit_response.status = 200
         /\ "prompt_id" \in DOMAIN submit_response.body
         /\ poll_out.ok
         /\ history.kind = "entry"
         /\ poll_out.result = <<Gifs(history.entry.outputs, ToString(NodeId))[1]>>
         /\ video.exists
         /\ puts = 1
         /\ put_response.kind = "response"
         /\ put_response.status = 200
         /\ netops = UNION {StageOps(StageOrder[i]) : i \in 1..Len(StageOrder)}

C4_Succeeded ==
    /\ result.status = 200
    /\ video.size > 0
    /\ puts = 1

\* C5 (as claimed): a request that has every required key but carries a
\* non-numeric value in a numeric field, or fps = 0, is answered with status
\* 400, like a request with a missing key.
C5_MalformedValuesAre400 ==
    LET ji == JobInput(job) IN
    (/\ pc = "done"
     /\ Keys \subseteq DOMAIN ji
     /\ \/ \E i \in 1..Len(NumericKeys) : ji[NumericKeys[i]].kind \in {"str", "null"}
        \/ IsZero(ji["fps"]))
    => result.status = 400

\* C6 (as claimed): whenever poll_result has returned without the history
\* ever showing the prompt id, it returned the timed-out outcome, and handler
\* answers 500 with a message holding the budget.
C6_AlwaysTimedOut ==
    (poll_out # NoPoll /\ history.kind # "entry") =>
        /\ poll_out.result = <<"Workflow timed out after ", ToString(Timeout), " seconds">>
        /\ pc = "done"
        /\ result.status = 500
        /\ Contains(result.message, ToString(Timeout))

\* what holds of a return of poll_result without the prompt id in the history:
\* a failure answered with 500, either the timed-out outcome with the budget
\* in the message or the "Poll exception" of an exception that is no
\* requests.RequestException
C6_FailureWithoutHistory ==
    (poll_out # NoPoll /\ history.kind # "entry") =>
        /\ ~poll_out.ok
        /\ pc = "done"
        /\ result.status = 500
        /\ result.message[1] = "Workflow failed: "
        /\ \/ /\ poll_out.result[1] = "Workflow timed out after "
              /\ Contains(result.message, ToString(Timeout))
           \/ poll_out.result[1] = "Poll exception: "

\* C6: without the prompt id in the history, poll_result returns a failure
\* that handler answers with status 500: the timed-out outcome, whose message
\* holds the budget (600), once the budget is spent, or before that the
\* "Poll exception" outcome when a query raised an exception that is no
\* transport error; the timed-out outcome is never a success; and poll_result
\* always returns.
C6_TimeoutOrPollException ==
    /\ []C6_FailureWithoutHistory
    /\ [][(pc = "poll" /\ elapsed >= Timeout) =>
            (/\ poll_out'.result = <<"Workflow timed out after ", ToString(Timeout), " seconds">>
             /\ ~poll_out'.ok
             /\ result'.status = 500)]_vars
    /\ (pc \in {"poll", "poll_history"}) ~> (poll_out # NoPoll)

C6_BudgetSpent ==
    /\ poll_out # NoPoll
    /\ poll_out.result[1] = "Workflow timed out after "
    /\ history.kind = "absent"
    /\ pc = "done"
    /\ result.status = 500

\* the request is complete and every numeric field holds a number, fps not 0
WellFormed(ji) ==
    /\ Keys \subseteq DOMAIN ji
    /\ \A i \in 1..Len(NumericKeys) : ji[NumericKeys[i]].kind \in {"int", "float", "numstr"}
    /\ ~IsZero(ji["fps"])

\* the surroundings of the end-to-end scenario, as far as the stages that
\* started have met them: a staged image with an image signature, a staged
\* audio file with an MP3 signature, the template intact, the engine reachable
\* and accepting, a history entry that is no error and has gifs for node 221,
\* the output file on disk, the one PUT answered with 200
Nominal ==
    LET n == Len(trace) IN
    /\ WellFormed(JobInput(job))
    /\ n >= 2 => /\ image_name \in DOMAIN input_files
                 /\ input_files[image_name].sig \in ImageSigs
                 /\ input_files[image_name].size >= MinFileSize
    /\ n >= 4 => /\ audio_name \in DOMAIN input_files
                 /\ input_files[audio_name].sig \in Mp3Sigs
                 /\ input_files[audio_name].size >= MinFileSize
    /\ n >= 6 => SlotNodes \subseteq DOMAIN workflow
    /\ n >= 7 => probe_ok
    /\ n >= 8 => /\ submit_response.kind = "response"
                 /\ submit_response.status = 200
                 /\ submit_response.parses
                 /\ "prompt_id" \in DOMAIN submit_response.body
    /\ n >= 9 => /\ history.kind = "entry"
                 /\ ~(history.entry.has_status /\ history.entry.status_str = "error")
                 /\ Gifs(history.entry.outputs, "221") # <<>>
    /\ n >= 10 => video.exists
    /\ n >= 11 => /\ puts = 1
                  /\ put_response.kind = "response"
                  /\ put_response.status = 200

\* C7: in the end-to-end scenario (valid image and audio, reachable engine
\* that accepts the submission, history complete with node 221 populated,
\* output file on disk, upload answered with 200) handler's result is status
\* 200 with the payload's num_frames the request's and its duration
\* num_frames / fps.
C7_EndToEnd ==
    (pc = "done" /\ Nominal) =>
        /\ result.status = 200
        /\ result.message = <<"Video created successfully">>
        /\ result.payload.num_frames.n = JobInput(job)["num_frames"].n
        /\ result.payload.duration.den # 0
        /\ result.payload.duration.num * JobInput(job)["fps"].n
             = JobInput(job)["num_frames"].n * result.payload.duration.den
        /\ result.payload.video_size = video.size

C7_CompletedAfterWaiting ==
    /\ pc = "done"
    /\ Nominal
    /\ history.after_absent
    /\ result.status = 200
    /\ JobInput(job)["fps"].n = 25

\* C8 (as claimed): when POST /prompt is answered with a status other than
\* 200, or with 200 and a body without prompt_id, handler answers 500 without
\* polling and without uploading, and when the response body carries an
\* 'error' or a 'node_errors' detail the message holds one of them verbatim.
C8_SubmitErrorSurfaced ==
    (/\ pc = "done"
     /\ submit_response.kind = "response"
     /\ \/ submit_response.status # 200
        \/ submit_response.parses /\ "prompt_id" \notin DOMAIN submit_response.body)
    => /\ result.status = 500
       /\ netops \cap {"GET queue", "GET history", "PUT video"} = {}
       /\ LET details == {"error", "node_errors"} \cap DOMAIN submit_response.body
          IN  details # {} =>
                \E k \in details : Contains(result.message, submit_response.body[k])

\* C9: check_server issues at most retries (50) probes, leaves the loop with
\* true at the first probe answered 200, and returns false exactly when
\* retries probes went by without a 200 (other statuses and transport errors
\* alike); handler then answers "ComfyUI server not reachable" with status 500
\* and never posts the workflow.
C9_BoundedProbing ==
    LET unreachable == Res(500, <<"ComfyUI server not reachable">>) IN
    /\ probes <= 50
    /\ pc = "check_server" => ~probe_ok
    /\ probe_ok <=> (Len(trace) >= 7 /\ trace[7].ok)
    /\ "POST prompt" \in netops => probe_ok
    /\ result = unreachable =>
         /\ pc = "done"
         /\ probes = 50
         /\ ~probe_ok
         /\ "GET health" \in netops
         /\ "POST prompt" \notin netops
    /\ (pc = "done" /\ Len(trace) = 7 /\ ~probe_ok /\ raised = "") =>
         (result = unreachable /\ probes = 50)
    /\ (pc = "check_server" /\ probes > 0) => "GET health" \in netops

C9_Unreachable ==
    /\ pc = "done"
    /\ probes = 50
    /\ result.status = 500
    /\ result.message = <<"ComfyUI server not reachable">>
    /\ netops = {"GET image", "GET audio", "GET health"}

\* C10 (as claimed): in every iteration of the polling loop the history is
\* queried after the queue query, whatever the queue query did, and the queue
\* query never makes poll_result return.
C10_QueueIsAdvisory ==
    [][(pc = "poll" /\ elapsed < Timeout) =>
          (pc' = "poll_history" /\ poll_out' = poll_out)]_vars

\* the entry the history shows is no error and has gifs for node 221
GoodEntry(e) ==
    /\ ~(e.has_status /\ e.status_str = "error")
    /\ Gifs(e.outputs, "221") # <<>>

\* C11: a history query that fails transiently (another status than 200, a
\* transport error, a timeout of the request) never makes poll_result return:
\* the loop sleeps and goes on, every failure poll_result returns is the
\* timed-out outcome, a "Poll exception" or what an entry of the history
\* showed, and when after such failures the history shows the prompt id with
\* the expected output, poll_result returns success with the file name.
C11_HistoryFailuresRetried ==
    /\ [](poll_out # NoPoll /\ ~poll_out.ok =>
            \/ poll_out.result[1] \in {"Workflow timed out after ", "Poll exception: "}
            \/ history.kind = "entry" /\ ~GoodEntry(history.entry))
    /\ [](history.kind = "entry" /\ history.after_failure /\ GoodEntry(history.entry) =>
            poll_out.ok)
    /\ [][(~history.after_failure /\ history'.after_failure) =>
            (/\ pc = "poll_history"
             /\ pc' = "poll"
             /\ poll_out' = NoPoll
             /\ result' = NoResult
             /\ elapsed' >= elapsed + 2)]_vars

C11_CompletedAfterFailures ==
    /\ history.kind = "entry"
    /\ history.after_failure
    /\ poll_out.ok
    /\ poll_out.result = <<"result.mp4">>
    /\ pc = "output_check"

\* C12: when the history entry of the prompt id has a status other than error
\* (or none) and its outputs hold node 221 with a list of gifs that is not
\* empty, poll_result has returned success with the file name of the first
\* of them, and it returned in the iteration that saw the entry.
C12_FirstArtifactReturned ==
    LET e == history.entry IN
    (/\ history.kind = "entry"
     /\ ~(e.has_status /\ e.status_str = "error")
     /\ \E i \in 1..Len(e.outputs) : e.outputs[i].node = "221" /\ e.outputs[i].gifs # <<>>)
    => /\ pc \notin {"poll", "poll_history"}
       /\ poll_out.ok
       /\ \E i \in 1..Len(e.outputs) :
            /\ e.outputs[i].node = "221"
            /\ poll_out.result = <<e.outputs[i].gifs[1]>>

C12_FirstOfTwoArtifacts ==
    /\ history.kind = "entry"
    /\ ~history.entry.has_status
    /\ Len(history.entry.outputs) = 2
    /\ Len(history.entry.outputs[2].gifs) = 2
    /\ poll_out = [ok |-> TRUE, result |-> <<"result.mp4">>]

\* C13: when the history entry of the prompt id has status_str 'error',
\* poll_result returns a failure, also when the outputs hold a file of node
\* 221: 'Workflow execution error: ' and the '<node_type>: <exception_message>'
\* of every execution_error message, in order, with '; ' between them, or
\* the generic failure message when no message is an execution_error; and
\* handler answers 500.
C13_ExecutionErrorReported ==
    LET e == history.entry
        errs == SelectSeq(e.messages, LAMBDA m : m.kind = "execution_error")
        n == Len(errs)
        field(m, k, default) == IF k \in DOMAIN m.info THEN m.info[k] ELSE default
        pair(m) == field(m, "node_type", "Unknown") \o ": "
                     \o field(m, "exception_message", "Unknown error")
    IN
    (history.kind = "entry" /\ e.has_status /\ e.status_str = "error") =>
        /\ ~poll_out.ok
        /\ pc = "done"
        /\ result.status = 500
        /\ result.message = <<"Workflow failed: ">> \o poll_out.result
        /\ IF n = 0
           THEN poll_out.result = <<"Workflow execution failed with unknown error">>
           ELSE /\ Len(poll_out.result) = 2 * n
                /\ poll_out.result[1] = "Workflow execution error: "
                /\ \A j \in 1..n : poll_out.result[2 * j] = pair(errs[j])
                /\ \A j \in 1..(n - 1) : poll_out.result[2 * j + 1] = "; "

C13_ErrorDespiteOutput ==
    /\ history.kind = "entry"
    /\ history.entry.status_str = "error"
    /\ history.entry.outputs # <<>>
    /\ poll_out = [ok |-> FALSE,
                   result |-> <<"Workflow execution error: ", "KSampler: CUDA OOM">>]
    /\ result.status = 500

\* the entry has no file of node 221: no outputs of that node, or an empty list
NoArtifact(e) ==
    \A i \in 1..Len(e.outputs) : e.outputs[i].node = "221" => e.outputs[i].gifs = <<>>

\* C14 (as claimed): once the history shows the prompt id poll_result has
\* returned, with 'no outputs' whenever the entry has no outputs at all, and
\* with a failure naming the nodes that have outputs whenever there are
\* outputs but no file of node 221.
C14_NoOutputsAlwaysReported ==
    LET e == history.entry IN
    history.kind = "entry" =>
        /\ pc \notin {"poll", "poll_history"}
        /\ poll_out # NoPoll
        /\ e.outputs = <<>> =>
             poll_out = [ok |-> FALSE,
                         result |-> <<"Workflow completed but produced no outputs">>]
        /\ (e.outputs # <<>> /\ NoArtifact(e)) =>
             /\ ~poll_out.ok
             /\ \A i \in 1..Len(e.outputs) : Contains(poll_out.result, e.outputs[i].node)

\* C14: once the history shows the prompt id, poll_result returns in that
\* iteration and the loop is never entered again. When the entry's status is
\* not 'error': without any outputs the return is the failure 'Workflow
\* completed but produced no outputs', and with outputs but no file of node
\* 221 it is a failure that names node 221 and, in order, the nodes that have
\* outputs. When the status is 'error' the return is the execution failure,
\* whatever the outputs. It never waits for a file of node 221 to appear.
C14_EntryEndsPolling ==
    LET e == history.entry
        error == e.has_status /\ e.status_str = "error"
    IN
    history.kind = "entry" =>
        /\ pc \notin {"poll", "poll_history"}
        /\ poll_out # NoPoll
        /\ NoArtifact(e) => ~poll_out.ok /\ pc = "done" /\ result.status = 500
        /\ (~error /\ e.outputs = <<>>) =>
             poll_out.result = <<"Workflow completed but produced no outputs">>
        /\ (~error /\ e.outputs # <<>> /\ NoArtifact(e)) =>
             poll_out.result =
                 <<"Node ", "221", " has no output. Available outputs from nodes: ">>
                 \o [i \in 1..Len(e.outputs) |-> e.outputs[i].node]
        /\ error => poll_out.result[1] \in {"Workflow execution error: ",
                                            "Workflow execution failed with unknown error"}

C14_OtherNodeNamed ==
    /\ history.kind = "entry"
    /\ history.entry.status_str = "success"
    /\ Len(history.entry.outputs) = 1
    /\ history.entry.outputs[1].node = "220"
    /\ ~poll_out.ok
    /\ Contains(poll_out.result, "220")
    /\ pc = "done"

\* (node, input) is one of the slots handler writes (there are 18)
IsSlot(node, input) == \E i \in 1..Len(Slots) : Slots[i][1] = node /\ Slots[i][2] = input

\* graph g differs from template t in slots at most: the same nodes, each of
\* the same class, and every input that is no slot as in the template
SameTopology(g, t) ==
    /\ DOMAIN g = DOMAIN t
    /\ \A node \in DOMAIN t :
         /\ g[node].class_type = t[node].class_type
         /\ \A input \in DOMAIN g[node].inputs \cup DOMAIN t[node].inputs :
              ~IsSlot(node, input) =>
                 /\ input \in DOMAIN g[node].inputs
                 /\ input \in DOMAIN t[node].inputs
                 /\ g[node].inputs[input] = t[node].inputs[input]

\* C15: binding leaves the topology of the graph alone: the graph after the
\* binding, which is the graph handler posts, has the node identifiers of the
\* loaded template, every (node, input) outside the designated slots (the 18
\* assignments of lines 359-382) has the template's value, also when the
\* binding breaks off at a missing node, and binding the template once more
\* with the same resolved parameters gives the same graph.
C15_TopologyKept ==
    /\ [][(pc = "binding" /\ workflow # NoWorkflow) =>
            /\ SameTopology(workflow', workflow)
            /\ pc' = "check_server" =>
                 /\ workflow' = Bind(workflow, params, image_name, audio_name).graph
                 /\ workflow' = Bind(workflow', params, image_name, audio_name).graph]_vars
    /\ [][(pc # "binding") => workflow' = workflow]_vars
    /\ []("POST prompt" \in netops =>
            \E t \in TemplateFiles : t.parses /\ SameTopology(workflow, t.graph))

C15_BoundAndPosted ==
    /\ "POST prompt" \in netops
    /\ SameTopology(workflow, FullTemplate)
    /\ workflow # FullTemplate
    /\ workflow["221"] = FullTemplate["221"]
    /\ workflow["198"].inputs["upstream"] = StrV("link")
    /\ workflow["198"].inputs["steps"] = IntV(4)

\* C16 (as claimed): when the loaded template lacks a designated slot, the
\* node or the input name inside a node that is there, the binding ends the
\* job with a failure result and without the slot having been made.
C16_MissingSlotFailsLoudly ==
    [][(/\ pc = "binding"
        /\ workflow # NoWorkflow
        /\ \E i \in 1..Len(Slots) :
              \/ Slots[i][1] \notin DOMAIN workflow
              \/ Slots[i][2] \notin DOMAIN workflow[Slots[i][1]].inputs)
       => (/\ pc' = "done"
           /\ result'.status = 500
           /\ \A i \in 1..Len(Slots) :
                 (/\ Slots[i][1] \in DOMAIN workflow
                  /\ Slots[i][2] \notin DOMAIN workflow[Slots[i][1]].inputs)
                 => Slots[i][2] \notin DOMAIN workflow'[Slots[i][1]].inputs)]_vars

\* C17: a seed of the request other than -1 is the seed of the parameters and
\* the seed written into the sampler slot (node 198) exactly; for -1 the seed
\* written is a value between 10^15 and 10^16 - 1 (here in two halves of
\* eight decimal digits); the graph posted never has the seed -1.
C17_SeedResolved ==
    LET given == JobInput(job)["seed"]
        written == workflow["198"].inputs["seed"]
        bound == pc \notin {"start", "extract", "image_download", "image_validation",
                            "audio_download", "audio_validation", "binding"}
    IN
    /\ params # <<>> =>
         /\ (given.kind = "int" /\ given # IntV(-1)) => params["seed"] = given
         /\ given = IntV(-1) =>
              /\ params["seed"].kind = "int"
              /\ params["seed"].hi >= 10000000
              /\ params["seed"].hi <= 99999999
              /\ params["seed"].n \in 0..99999999
         /\ params["seed"] # IntV(-1)
    /\ (bound /\ workflow # NoWorkflow /\ "198" \in DOMAIN workflow) =>
         written = params["seed"]
    /\ "POST prompt" \in netops =>
         /\ written = params["seed"]
         /\ written # IntV(-1)
         /\ written.kind = "int"

C17_RandomSeedPosted ==
    /\ "POST prompt" \in netops
    /\ JobInput(job)["seed"] = IntV(-1)
    /\ workflow["198"].inputs["seed"] = BigV(99999999, 99999999)

\* the file name the last call of download_file was to save under
LastSaveName == IF audio_name # "" THEN audio_name ELSE image_name

\* the response is a 200 of at least 100 bytes
PlausiblePayload(r) == r.kind = "response" /\ r.status = 200 /\ r.body.size >= 100

\* a markup or JSON content type, under 10000 bytes, 'error' or 'denied' in the text
SmallPageWithWord(r) ==
    /\ r.ctype \in {"text/html", "application/json"}
    /\ r.body.size < 10000
    /\ r.body.word \in {"error", "denied", "Error", "DENIED"}

\* C18 (as claimed): download_file has saved the file exactly when the
\* response was a 200 of at least 100 bytes that is no small markup or JSON
\* page with 'error' or 'denied' anywhere in its text.
C18_SavedUnlessWordInText ==
    download_response.kind # "none" =>
        (LastSaveName \in DOMAIN input_files
            <=> (PlausiblePayload(download_response) /\ ~SmallPageWithWord(download_response)))

\* what holds of the last call of download_file: it saved the file exactly
\* when the response was accepted, the heuristic reading the first 500
\* characters only
C18_LastDownload ==
    LET r == download_response
        inExcerpt == r.body.before + (IF r.body.word \in {"denied", "DENIED"} THEN 6 ELSE 5) <= 500
        accepted == PlausiblePayload(r) /\ ~(SmallPageWithWord(r) /\ inExcerpt)
        saved == LastSaveName \in DOMAIN input_files
    IN
    r.kind # "none" =>
        /\ saved <=> accepted
        /\ saved => input_files[LastSaveName] = r.body
        /\ ~saved =>
             /\ pc = "done"
             /\ result.status = 500
             /\ ~trace[Len(trace)].ok
             /\ result.message[1] \in {"Image download failed: ", "Audio download failed: "}
        /\ DOMAIN input_files \subseteq {image_name, audio_name}

\* C18: download_file writes input/<save_name> exactly when the response
\* status is 200, the payload has at least 100 bytes, and the error-page
\* heuristic did not fire, which looks for 'error' or 'denied' in the first
\* 500 characters of the text only (content type text/html or
\* application/json, payload under 10000 bytes); the file then holds the
\* payload. In every other case (another status, too small, error page,
\* timeout, transport error, any other exception of the request) it returns
\* failure, handler answers 500, and the staging directory is as it was.
C18_SavedOnlyWhenAccepted ==
    /\ []C18_LastDownload
    /\ [][(pc \in {"image_download", "audio_download"}) =>
            (/\ \A n \in DOMAIN input_files :
                   n \in DOMAIN input_files' /\ input_files'[n] = input_files[n]
             /\ pc' = "done" => input_files' = input_files)]_vars
    /\ [][(pc \notin {"image_download", "audio_download"}) =>
            input_files' = input_files]_vars

C18_AudioTimeoutLeavesImage ==
    /\ pc = "done"
    /\ audio_name # ""
    /\ download_response.kind = "timeout"
    /\ DOMAIN input_files = {image_name}
    /\ result.message = <<"Audio download failed: ", "Download timed out after 120 seconds">>

\* C19: upload_file sends nothing when the file is not there and one PUT, never
\* a second, when it is; it reports success exactly when that PUT was answered
\* with status 200, so that another status (201 and 204 too), a timeout or a
\* transport error is a failure; a job issues at most one upload PUT.
C19_OnePutSuccessOn200 ==
    LET uploaded == Len(trace) = 11
        answered200 == put_response.kind = "response" /\ put_response.status = 200
    IN
    /\ puts \in {0, 1}
    /\ puts = 1 <=> "PUT video" \in netops
    /\ puts = 1 <=> put_response # NoPut
    /\ ~uploaded => puts = 0
    /\ uploaded =>
         /\ pc = "done"
         /\ trace[11].ok <=> (puts = 1 /\ answered200)
         /\ result.status = 200 <=> (puts = 1 /\ answered200)
         /\ puts = 0 => result.message[2] = "File not found: "
         /\ (puts = 1 /\ ~answered200) =>
              /\ result.status = 500
              /\ result.message[1] = "Video upload failed: "
              /\ put_response.kind = "timeout" =>
                   result.message[2] = "Upload timed out after 300 seconds"
              /\ put_response.kind = "response" =>
                   Contains(result.message, ToString(put_response.status))

C19_Put201IsFailure ==
    /\ pc = "done"
    /\ puts = 1
    /\ put_response.kind = "response"
    /\ put_response.status = 201
    /\ result.status = 500

\* C20: a file of fewer than 100 bytes is rejected by validate_image_file and
\* by validate_audio_file whatever it holds, a file that starts with a known
\* signature (ID3, RIFF....WAVE, OggS, ftyp, an image signature) included,
\* and the reason given is the size: the size is looked at before any
\* signature.
C20_SmallFilesRejected ==
    LET n == Len(trace)
        stage == trace[n].stage
        name == IF stage = "image_validation" THEN image_name ELSE audio_name
        file == input_files[name]
        prefix == IF stage = "image_validation"
                  THEN "Image validation failed: " ELSE "Audio validation failed: "
    IN
    (/\ n > 0
     /\ stage \in {"image_validation", "audio_validation"}
     /\ name \in DOMAIN input_files
     /\ file.size < 100)
    => /\ ~trace[n].ok
       /\ pc = "done"
       /\ result = Res(500, <<prefix, "File too small (", ToString(file.size),
                              " bytes), likely an error response">>)

C20_SmallMp3Rejected ==
    /\ pc = "done"
    /\ Len(trace) = 5
    /\ input_files[audio_name].sig = "id3"
    /\ input_files[audio_name].size = 99
    /\ result.status = 500
    /\ result.message[2] = "File too small ("

====
